---------------------------- MODULE Spec2Model ----------------------------
(***************************************************************************)
(* GPS trip-compliance engine of the fleet application:                    *)
(*   server/route-compliance.ts   interpolateRoute,                        *)
(*                                calculateRouteCompliance                 *)
(*   client/src/components/route-confrontation-map.tsx                     *)
(*                                interpolatePlannedRoute,                 *)
(*                                detectUnscheduledStops                   *)
(*                                                                         *)
(* Numbers.  The code computes in IEEE doubles; the model computes in      *)
(* fixed point.  A coordinate is an integer number of ticks of arc, Res    *)
(* ticks subtending one metre on the sphere of radius R = 6371e3, and a    *)
(* distance is an integer number of ticks (1/Res metre).  Every modelled   *)
(* coordinate lies within about a kilometre of (0, 0); there cos(lat)      *)
(* differs from 1 by less than 1e-7, so the haversine distance R*c equals  *)
(* R*sqrt(dLat^2 + dLng^2) to far below one tick.  A quotient is kept      *)
(* exact (numerator, denominator) until the code stores it in a            *)
(* coordinate, where it is rounded to the nearest tick.                    *)
(***************************************************************************)
EXTENDS Integers, Sequences, FiniteSets

(***************************************************************************)
(* Bounds of the model.                                                    *)
(***************************************************************************)
\* ticks per metre: the resolution of the fixed-point arithmetic
Res == 10
\* longest freely chosen actualPath (the 21-waypoint paths come on top)
MaxPath == 3
\* largest explicit numPoints handed to a route builder
MaxNumPoints == 5
\* longest GPS track handed to detectUnscheduledStops
MaxTrack == 4
\* most rows of trip_events a trip collects
MaxEvents == 3
\* most rows of gps_route_points a trip collects
MaxGps == 1

(***************************************************************************)
(* Program constants.                                                      *)
(***************************************************************************)
\* let minDistance = Infinity: a value below every distance, read by MathMin
Infinity == -1
\* toleranceMeters: number = 500
DefaultToleranceMeters == 500
\* interpolateRoute(..., numPoints: number = 10)
ServerDefaultNumPoints == 10
\* interpolatePlannedRoute(..., numPoints: number = 20)
ClientDefaultNumPoints == 20
\* interpolateRoute(expectedStart, expectedEnd, 20)
ComplianceNumPoints == 20
\* stopThresholdMinutes: number = 10
DefaultStopThresholdMinutes == 10
\* distanceThresholdMeters: number = 100
DefaultDistanceThresholdMeters == 100
\* calculateDistance(stopStart, destination) < 200
DestinationRadiusMeters == 200
\* (getTime() - getTime()) / 60000
MsPerMinute == 60000

VARIABLES
  \* calculateRouteCompliance: arguments
  actualPath, expectedStart, expectedEnd, toleranceArg,
  \* calculateRouteCompliance: locals, position and returned value
  expectedRoute, idx, compliantPoints, totalDeviation, maxDeviation,
  minDistance, rcResult, rcPc,
  \* route builders: arguments of the last call, who was called, the result
  brStart, brEnd, brCaller, brNumPointsArg, brRoute,
  \* detectUnscheduledStops: arguments
  gpsPoints, destinationLat, destinationLng, stopThresholdArg,
  distanceThresholdArg,
  \* detectUnscheduledStops: locals and position; stops is returned
  dsI, stopStart, stopPoints, stops, dsPc,
  \* storage: the trip row, its job row, its trip_events and gps_route_points
  trip, job, tripEvents, gpsRoutePoints,
  \* TripDetailPage of each user: the trip it last fetched
  page,
  \* the start-trip or end-trip request of each user: position and locals
  req

rcVars == <<actualPath, expectedStart, expectedEnd, toleranceArg,
            expectedRoute, idx, compliantPoints, totalDeviation,
            maxDeviation, minDistance, rcResult, rcPc>>
brVars == <<brStart, brEnd, brCaller, brNumPointsArg, brRoute>>
dsVars == <<gpsPoints, destinationLat, destinationLng, stopThresholdArg,
            distanceThresholdArg, dsI, stopStart, stopPoints, stops, dsPc>>
trVars == <<trip, job, tripEvents, gpsRoutePoints, page, req>>
vars == <<rcVars, brVars, dsVars, trVars>>

(***************************************************************************)
(* Arithmetic of the runtime.                                              *)
(***************************************************************************)
Coord(latMeters, lngMeters) == [lat |-> Res * latMeters, lng |-> Res * lngMeters]

\* Math.round of the quotient num / den (den > 0): the nearest integer,
\* halves towards +infinity.
MathRound(num, den) == (2 * num + den) \div (2 * den)

\* Math.min, with Infinity as its neutral element
MathMin(a, b) == IF a = Infinity THEN b ELSE IF b = Infinity THEN a
                 ELSE IF b < a THEN b ELSE a

MathMaxFirst(a, b) == a
MathMaxLast(a, b) == b
\* Math.max(maxDeviation, minDistance)
MathMax(a, b) == IF b > a THEN b ELSE a

RECURSIVE SqrtSearch(_, _, _)
SqrtSearch(n, lo, hi) ==
  IF lo >= hi THEN lo
  ELSE LET mid == (lo + hi + 1) \div 2
       IN  IF mid * mid <= n THEN SqrtSearch(n, mid, hi)
           ELSE SqrtSearch(n, lo, mid - 1)

\* Math.sqrt at the resolution of one tick
MathSqrt(n) == SqrtSearch(n, 0, 46340)

(***************************************************************************)
(* GeoMath (server).                                                       *)
(***************************************************************************)
haversineDistance(coord1, coord2) ==
  LET deltaLat == coord2.lat - coord1.lat
      deltaLng == coord2.lng - coord1.lng
  IN  MathSqrt(deltaLat * deltaLat + deltaLng * deltaLng)

\* start + t * (end - start) with t = i / numPoints, stored in a coordinate
Lerp(from, to, i, numPoints) == from + MathRound(i * (to - from), numPoints)

interpolateRouteShort(start, end, numPoints) ==
  [j \in 1..numPoints |->
     [lat |-> Lerp(start.lat, end.lat, j - 1, numPoints),
      lng |-> Lerp(start.lng, end.lng, j - 1, numPoints)]]
\* for (let i = 0; i <= numPoints; i++) points.push(...): point i is entry i + 1
interpolateRoute(start, end, numPoints) ==
  [j \in 1..(numPoints + 1) |->
     [lat |-> Lerp(start.lat, end.lat, j - 1, numPoints),
      lng |-> Lerp(start.lng, end.lng, j - 1, numPoints)]]

ClampUnitNone(num, den) == num
\* Math.max(0, Math.min(1, num / den)) as the numerator over the same den
ClampUnit(num, den) == IF num < 0 THEN 0 ELSE IF num > den THEN den ELSE num

pointToLineSegmentDistance(point, lineStart, lineEnd) ==
  LET lineLat == lineEnd.lat - lineStart.lat
      lineLng == lineEnd.lng - lineStart.lng
      \* lineLength * lineLength
      sq      == lineLat * lineLat + lineLng * lineLng
      tNum    == ClampUnit((point.lat - lineStart.lat) * lineLat
                           + (point.lng - lineStart.lng) * lineLng, sq)
  IN  IF sq = 0 THEN haversineDistance(point, lineStart)
      ELSE haversineDistance(point,
             [lat |-> lineStart.lat + MathRound(tNum * lineLat, sq),
              lng |-> lineStart.lng + MathRound(tNum * lineLng, sq)])

(***************************************************************************)
(* RouteComplianceEvaluator: calculateRouteCompliance, one action per      *)
(* position of the function.                                               *)
(***************************************************************************)
\* the parameter toleranceMeters after its default is applied
toleranceMeters ==
  IF toleranceArg = <<>> THEN DefaultToleranceMeters ELSE toleranceArg[1]

RECURSIVE SegmentLoopFrom(_, _, _, _, _)
SegmentLoopFrom(actualPoint, route, i, last, minD) ==
  IF i < last
  THEN SegmentLoopFrom(actualPoint, route, i + 1, last,
         MathMin(minD,
                 pointToLineSegmentDistance(actualPoint, route[i + 1], route[i + 2])))
  ELSE minD

SegmentLoopSkipLast(actualPoint, route) ==
  SegmentLoopFrom(actualPoint, route, 0, Len(route) - 2, Infinity)
SegmentLoopSkipFirst(actualPoint, route) ==
  SegmentLoopFrom(actualPoint, route, 1, Len(route) - 1, Infinity)
\* let minDistance = Infinity; for (let i = 0; i < expectedRoute.length - 1; i++)
SegmentLoop(actualPoint, route) ==
  SegmentLoopFrom(actualPoint, route, 0, Len(route) - 1, Infinity)

AddDeviationRounded(total, distance) == total + Res * MathRound(distance, Res)
\* totalDeviation += minDistance
AddDeviation(total, distance) == total + distance

IsCompliantInverted(distance, tolerance) == distance >= tolerance * Res
IsCompliantStrict(distance, tolerance) == distance < tolerance * Res
\* if (minDistance <= toleranceMeters)
IsCompliant(distance, tolerance) == distance <= tolerance * Res

\* Math.round(compliancePercent * 10) / 10, held in tenths of a percent
RoundPercentWhole(compliant, length) == 10 * MathRound(compliant * 100, length)
RoundPercent(compliant, length) == MathRound(compliant * 1000, length)

\* Math.round(deviation), a distance in ticks that is a whole number of metres
RoundDeviationNone(total, count) == total \div count
RoundDeviation(total, count) == Res * MathRound(total, count * Res)

EmptyPathResultZero ==
  [compliancePercent |-> 0, maxDeviation |-> 0, averageDeviation |-> 0]
\* return { compliancePercent: 100, maxDeviation: 0, averageDeviation: 0 }
EmptyPathResult ==
  [compliancePercent |-> 1000, maxDeviation |-> 0, averageDeviation |-> 0]

NoResult == [compliancePercent |-> 0, maxDeviation |-> 0, averageDeviation |-> 0]

\* lines 64-72: the empty-path return, else the planned route and the counters
rcEnter ==
  /\ rcPc = "call"
  /\ IF Len(actualPath) = 0
     THEN /\ rcResult' = EmptyPathResult
          /\ rcPc' = "done"
          /\ UNCHANGED <<expectedRoute, idx, compliantPoints, totalDeviation,
                         maxDeviation, minDistance>>
     ELSE /\ expectedRoute' =
               interpolateRoute(expectedStart, expectedEnd, ComplianceNumPoints)
          /\ compliantPoints' = 0
          /\ totalDeviation' = 0
          /\ maxDeviation' = 0
          /\ idx' = 1
          /\ rcPc' = "loop"
          /\ UNCHANGED <<minDistance, rcResult>>
  /\ UNCHANGED <<actualPath, expectedStart, expectedEnd, toleranceArg, brVars, dsVars, trVars>>

\* lines 74-88: one iteration of for (const actualPoint of actualPath)
rcPoint ==
  /\ rcPc = "loop"
  /\ idx <= Len(actualPath)
  /\ minDistance' = SegmentLoop(actualPath[idx], expectedRoute)
  /\ totalDeviation' = AddDeviation(totalDeviation, minDistance')
  /\ maxDeviation' = MathMax(maxDeviation, minDistance')
  /\ compliantPoints' = IF IsCompliant(minDistance', toleranceMeters)
                        THEN compliantPoints + 1 ELSE compliantPoints
  /\ idx' = idx + 1
  /\ UNCHANGED <<actualPath, expectedStart, expectedEnd, toleranceArg,
                 expectedRoute, rcResult, rcPc, brVars, dsVars, trVars>>

\* lines 90-97: the returned record
rcReturn ==
  /\ rcPc = "loop"
  /\ idx > Len(actualPath)
  /\ rcResult' =
       [compliancePercent |-> RoundPercent(compliantPoints, Len(actualPath)),
        maxDeviation      |-> RoundDeviation(maxDeviation, 1),
        averageDeviation  |-> RoundDeviation(totalDeviation, Len(actualPath))]
  /\ rcPc' = "done"
  /\ UNCHANGED <<actualPath, expectedStart, expectedEnd, toleranceArg,
                 expectedRoute, idx, compliantPoints, totalDeviation,
                 maxDeviation, minDistance, brVars, dsVars, trVars>>


(***************************************************************************)
(* PlannedRouteBuilder: the server's interpolateRoute and the client's     *)
(* interpolatePlannedRoute, called with and without numPoints.             *)
(***************************************************************************)
\* for (let i = 0; i <= numPoints; i++) route.push([lat, lng])
interpolatePlannedRoute(startLat, startLng, endLat, endLng, numPoints) ==
  [j \in 1..(numPoints + 1) |->
     <<Lerp(startLat, endLat, j - 1, numPoints),
       Lerp(startLng, endLng, j - 1, numPoints)>>]

\* numPoints: number = 10 (server)
ServerNumPoints(arg) == IF arg = <<>> THEN ServerDefaultNumPoints ELSE arg[1]
\* numPoints: number = 20 (client)
ClientNumPoints(arg) == IF arg = <<>> THEN ClientDefaultNumPoints ELSE arg[1]

\* the numPoints argument of a call: omitted, or an explicit count
NumPointsArgs == {<<>>} \cup {<<n>> : n \in 1..MaxNumPoints}

brServerBuild ==
  /\ \E arg \in NumPointsArgs :
       /\ brNumPointsArg' = arg
       /\ brRoute' = interpolateRoute(brStart, brEnd, ServerNumPoints(arg))
  /\ brCaller' = "server"
  /\ UNCHANGED <<brStart, brEnd, rcVars, dsVars, trVars>>

brClientBuild ==
  /\ \E arg \in NumPointsArgs :
       /\ brNumPointsArg' = arg
       /\ brRoute' = interpolatePlannedRoute(brStart.lat, brStart.lng,
                                             brEnd.lat, brEnd.lng,
                                             ClientNumPoints(arg))
  /\ brCaller' = "client"
  /\ UNCHANGED <<brStart, brEnd, rcVars, dsVars, trVars>>

(***************************************************************************)
(* UnscheduledStopDetector (client): detectUnscheduledStops, one action    *)
(* per position of the function.  null is the empty sequence, a value v    *)
(* the sequence <<v>>; a timestamp is a number of milliseconds.            *)
(***************************************************************************)
\* same formula as the server's haversineDistance
calculateDistance(lat1, lng1, lat2, lng2) ==
  LET dLat == lat2 - lat1
      dLng == lng2 - lng1
  IN  MathSqrt(dLat * dLat + dLng * dLng)

stopThresholdMinutes ==
  IF stopThresholdArg = <<>> THEN DefaultStopThresholdMinutes
  ELSE stopThresholdArg[1]

distanceThresholdMeters ==
  IF distanceThresholdArg = <<>> THEN DefaultDistanceThresholdMeters
  ELSE distanceThresholdArg[1]

\* an optional number used as a condition: null, undefined and 0 are false
Truthy(arg) == arg # <<>> /\ arg[1] # 0

IsStationaryOrEqual(distance, threshold) == distance <= threshold * Res
\* if (distance < distanceThresholdMeters)
IsStationary(distance, threshold) == distance < threshold * Res

\* destinationLat && destinationLng && calculateDistance(...) < 200
isAtDestination(start, destLat, destLng) ==
  /\ Truthy(destLat)
  /\ Truthy(destLng)
  /\ calculateDistance(start.latitude, start.longitude, destLat[1], destLng[1])
       < DestinationRadiusMeters * Res

DurationReachedStrict(durationMs, threshold) ==
  durationMs > threshold * MsPerMinute
\* if (duration >= stopThresholdMinutes), duration in minutes, unrounded
DurationReached(durationMs, threshold) ==
  durationMs >= threshold * MsPerMinute

StopOfUnrounded(start, durationMs) ==
  [latitude  |-> start.latitude,
   longitude |-> start.longitude,
   startTime |-> start.timestamp,
   duration  |-> durationMs \div MsPerMinute]
\* the stop pushed for a run: { latitude, longitude, startTime, duration }
StopOf(start, durationMs) ==
  [latitude  |-> start.latitude,
   longitude |-> start.longitude,
   startTime |-> start.timestamp,
   duration  |-> MathRound(durationMs, MsPerMinute)]

\* lines 60-77: the run that a movement closes
CloseRunInLoop(start, points, found) ==
  IF start # <<>> /\ Len(points) > 1
  THEN LET lastPoint  == points[Len(points)]
           durationMs == lastPoint.timestamp - start[1].timestamp
       IN  IF DurationReached(durationMs, stopThresholdMinutes)
              /\ ~isAtDestination(start[1], destinationLat, destinationLng)
           THEN Append(found, StopOf(start[1], durationMs))
           ELSE found
  ELSE found

CloseRunAtEndForgotten(start, points, found) == found
\* lines 83-100: the run still open when the track ends
CloseRunAtEnd(start, points, found) ==
  IF start # <<>> /\ Len(points) > 1
  THEN LET lastPoint  == points[Len(points)]
           durationMs == lastPoint.timestamp - start[1].timestamp
       IN  IF DurationReached(durationMs, stopThresholdMinutes)
              /\ ~isAtDestination(start[1], destinationLat, destinationLng)
           THEN Append(found, StopOf(start[1], durationMs))
           ELSE found
  ELSE found

TooShortEmptyOnly(track) == Len(track) < 1
\* if (gpsPoints.length < 2) return []
TooShort(track) == Len(track) < 2
RECURSIVE DetectFrom(_, _, _, _, _)
\* lines 48-102 as a function of the track: the loop from pair i on, then the
\* run still open, then return stops
DetectFrom(track, i, start, points, found) ==
  IF i >= Len(track)
  THEN CloseRunAtEnd(start, points, found)
  ELSE LET prev == track[i]
           curr == track[i + 1]
       IN  IF IsStationary(calculateDistance(prev.latitude, prev.longitude,
                                             curr.latitude, curr.longitude),
                           distanceThresholdMeters)
           THEN IF start = <<>>
                THEN DetectFrom(track, i + 1, <<prev>>, <<prev, curr>>, found)
                ELSE DetectFrom(track, i + 1, start, Append(points, curr), found)
           ELSE DetectFrom(track, i + 1, <<>>, <<>>,
                           CloseRunInLoop(start, points, found))

\* detectUnscheduledStops(track, destinationLat, destinationLng,
\* stopThresholdMinutes, distanceThresholdMeters), the last four as in the
\* current call
detectUnscheduledStops(track) ==
  IF TooShort(track) THEN <<>> ELSE DetectFrom(track, 1, <<>>, <<>>, <<>>)

dsEnterKeepsStops ==
  /\ dsPc = "call"
  /\ IF TooShort(gpsPoints)
     THEN /\ stops' = <<>>
          /\ dsPc' = "done"
          /\ UNCHANGED <<dsI, stopStart, stopPoints>>
     ELSE /\ stops' = stops
          /\ stopStart' = <<>>
          /\ stopPoints' = <<>>
          /\ dsI' = 1
          /\ dsPc' = "loop"
  /\ UNCHANGED <<gpsPoints, destinationLat, destinationLng, stopThresholdArg,
                 distanceThresholdArg, rcVars, brVars, trVars>>
\* lines 42-46
dsEnter ==
  /\ dsPc = "call"
  /\ IF TooShort(gpsPoints)
     THEN /\ stops' = <<>>
          /\ dsPc' = "done"
          /\ UNCHANGED <<dsI, stopStart, stopPoints>>
     ELSE /\ stops' = <<>>
          /\ stopStart' = <<>>
          /\ stopPoints' = <<>>
          /\ dsI' = 1
          /\ dsPc' = "loop"
  /\ UNCHANGED <<gpsPoints, destinationLat, destinationLng, stopThresholdArg,
                 distanceThresholdArg, rcVars, brVars, trVars>>

dsPairKeepsRun ==
  /\ dsPc = "loop"
  /\ dsI < Len(gpsPoints)
  /\ LET prev == gpsPoints[dsI]
         curr == gpsPoints[dsI + 1]
     IN  IF IsStationary(calculateDistance(prev.latitude, prev.longitude,
                                           curr.latitude, curr.longitude),
                         distanceThresholdMeters)
         THEN /\ stopStart' = IF stopStart = <<>> THEN <<prev>> ELSE stopStart
              /\ stopPoints' = IF stopStart = <<>> THEN <<prev, curr>>
                               ELSE Append(stopPoints, curr)
              /\ stops' = stops
         ELSE /\ stops' = CloseRunInLoop(stopStart, stopPoints, stops)
              /\ UNCHANGED <<stopStart, stopPoints>>
  /\ dsI' = dsI + 1
  /\ UNCHANGED <<gpsPoints, destinationLat, destinationLng, stopThresholdArg,
                 distanceThresholdArg, dsPc, rcVars, brVars, trVars>>
dsPairWithoutPrev ==
  /\ dsPc = "loop"
  /\ dsI < Len(gpsPoints)
  /\ LET prev == gpsPoints[dsI]
         curr == gpsPoints[dsI + 1]
     IN  IF IsStationary(calculateDistance(prev.latitude, prev.longitude,
                                           curr.latitude, curr.longitude),
                         distanceThresholdMeters)
         THEN /\ stopStart' = IF stopStart = <<>> THEN <<prev>> ELSE stopStart
              /\ stopPoints' = IF stopStart = <<>> THEN <<curr>>
                               ELSE Append(stopPoints, curr)
              /\ stops' = stops
         ELSE /\ stops' = CloseRunInLoop(stopStart, stopPoints, stops)
              /\ stopStart' = <<>>
              /\ stopPoints' = <<>>
  /\ dsI' = dsI + 1
  /\ UNCHANGED <<gpsPoints, destinationLat, destinationLng, stopThresholdArg,
                 distanceThresholdArg, dsPc, rcVars, brVars, trVars>>
\* lines 48-81: one iteration, on the pair gpsPoints[i - 1], gpsPoints[i]
\* (entries dsI and dsI + 1 of the sequence)
dsPair ==
  /\ dsPc = "loop"
  /\ dsI < Len(gpsPoints)
  /\ LET prev == gpsPoints[dsI]
         curr == gpsPoints[dsI + 1]
     IN  IF IsStationary(calculateDistance(prev.latitude, prev.longitude,
                                           curr.latitude, curr.longitude),
                         distanceThresholdMeters)
         THEN /\ stopStart' = IF stopStart = <<>> THEN <<prev>> ELSE stopStart
              /\ stopPoints' = IF stopStart = <<>> THEN <<prev, curr>>
                               ELSE Append(stopPoints, curr)
              /\ stops' = stops
         ELSE /\ stops' = CloseRunInLoop(stopStart, stopPoints, stops)
              /\ stopStart' = <<>>
              /\ stopPoints' = <<>>
  /\ dsI' = dsI + 1
  /\ UNCHANGED <<gpsPoints, destinationLat, destinationLng, stopThresholdArg,
                 distanceThresholdArg, dsPc, rcVars, brVars, trVars>>

\* lines 83-102
dsReturn ==
  /\ dsPc = "loop"
  /\ dsI >= Len(gpsPoints)
  /\ stops' = CloseRunAtEnd(stopStart, stopPoints, stops)
  /\ dsPc' = "done"
  /\ UNCHANGED <<gpsPoints, destinationLat, destinationLng, stopThresholdArg,
                 distanceThresholdArg, dsI, stopStart, stopPoints, rcVars, brVars, trVars>>

(***************************************************************************)
(* TripLifecycleCoordinator (server routes) and the TripDetailPage that    *)
(* sends its requests.  One trip and its job.  A handler is one action per *)
(* await: between two awaits other requests run.  The rows keep their      *)
(* insertion order, which is the order of their timestamps (new Date() at  *)
(* the insert).  Left out: startTime, endTime, fuelUsed and fuelEfficiency *)
(* (functions of the clock and of distanceTravelled), the 404 for an       *)
(* unknown trip id, and the fuel log the dialogs post afterwards.          *)
(***************************************************************************)
\* const canManageTrip = user?.role === 'driver' || user?.role === 'technician'
Pages == {"driver", "technician"}

\* x || 0 on an optional number
OrZero(arg) == IF Truthy(arg) THEN arg[1] ELSE 0

\* the trip as a page holds it
Fetched(t) == [status |-> t.status, startOdometer |-> t.startOdometer]

RECURSIVE PathLoop(_, _, _, _, _)
\* calculateRouteCompliance, lines 74-88 as a function: the counters after
\* the points k.. of the path
PathLoop(path, route, tolerance, k, acc) ==
  IF k > Len(path) THEN acc
  ELSE LET d == SegmentLoop(path[k], route)
       IN  PathLoop(path, route, tolerance, k + 1,
             [compliantPoints |-> IF IsCompliant(d, tolerance)
                                  THEN acc.compliantPoints + 1
                                  ELSE acc.compliantPoints,
              totalDeviation  |-> AddDeviation(acc.totalDeviation, d),
              maxDeviation    |-> MathMax(acc.maxDeviation, d)])

\* calculateRouteCompliance(path, start, end, tolerance) as a function
calculateRouteCompliance(path, start, end, tolerance) ==
  IF Len(path) = 0 THEN EmptyPathResult
  ELSE LET acc == PathLoop(path,
                           interpolateRoute(start, end, ComplianceNumPoints),
                           tolerance, 1,
                           [compliantPoints |-> 0, totalDeviation |-> 0,
                            maxDeviation |-> 0])
       IN  [compliancePercent |-> RoundPercent(acc.compliantPoints, Len(path)),
            maxDeviation      |-> RoundDeviation(acc.maxDeviation, 1),
            averageDeviation  |-> RoundDeviation(acc.totalDeviation, Len(path))]

\* let routeCompliance = { compliancePercent: 100, maxDeviation: 0, ... }
DefaultRouteCompliance ==
  [compliancePercent |-> 100 * 10, maxDeviation |-> 0, averageDeviation |-> 0]

\* events.filter(e => e.latitude && e.longitude).map(e => ({ lat, lng }))
HasPosition(e) == Truthy(e.latitude) /\ Truthy(e.longitude)
PathOfEvents(events) ==
  LET located == SelectSeq(events, HasPosition)
  IN  [k \in 1..Len(located) |->
         [lat |-> located[k].latitude[1], lng |-> located[k].longitude[1]]]

\* job && job.pickupLat && job.pickupLng && job.deliveryLat &&
\* job.deliveryLng && actualPath.length > 0
ShouldEvaluate(j, path) ==
  /\ Truthy(j.pickupLat) /\ Truthy(j.pickupLng)
  /\ Truthy(j.deliveryLat) /\ Truthy(j.deliveryLng)
  /\ Len(path) > 0

\* lines 565-577: the default, replaced by the evaluation when it is made
RouteComplianceOf(j, path) ==
  IF ShouldEvaluate(j, path)
  THEN calculateRouteCompliance(path,
         [lat |-> j.pickupLat[1], lng |-> j.pickupLng[1]],
         [lat |-> j.deliveryLat[1], lng |-> j.deliveryLng[1]],
         DefaultToleranceMeters)
  ELSE DefaultRouteCompliance

\* a row of trip_events: the type and the optional position of the body
EventOf(type, fix) ==
  [eventType |-> type,
   latitude  |-> IF fix = <<>> THEN <<>> ELSE <<fix[1].lat>>,
   longitude |-> IF fix = <<>> THEN <<>> ELSE <<fix[1].lng>>]

NoRequest ==
  [pc |-> "idle", startOdometer |-> <<>>, endOdometer |-> 0, fix |-> <<>>,
   distance |-> 0, actualPath |-> <<>>, routeCompliance |-> DefaultRouteCompliance]

\* requests that will still insert their departure or arrival event
BeforeEvent ==
  {"startUpdateTrip", "startCreateTripEvent", "endGetTripEvents",
   "endUpdateTrip", "endCreateTripEvent"}

RoomForEvent ==
  Len(tripEvents) + Cardinality({q \in Pages : req[q].pc \in BeforeEvent})
    < MaxEvents

\* useQuery(['/api/trips', id]): GET /api/trips/:id
pageFetch(p) ==
  /\ req[p].pc = "idle"
  /\ page[p] # Fetched(trip)
  /\ page' = [page EXCEPT ![p] = Fetched(trip)]
  /\ UNCHANGED <<trip, job, tripEvents, gpsRoutePoints, req, rcVars, brVars, dsVars>>

\* canStart, StartTripDialog; POST /api/trips/:id/start up to getTrip
startGetTrip(p, odometer, fix) ==
  /\ req[p].pc = "idle"
  /\ page[p].status = "not_started"
  /\ RoomForEvent
  /\ req' = [req EXCEPT ![p] = [NoRequest EXCEPT !.pc = "startUpdateTrip",
                                                 !.startOdometer = odometer,
                                                 !.fix = fix]]
  /\ UNCHANGED <<trip, job, tripEvents, gpsRoutePoints, page, rcVars, brVars, dsVars>>

\* updateTrip(id, { status: 'in_progress', startTime, startOdometer || 0 })
startUpdateTrip(p) ==
  /\ req[p].pc = "startUpdateTrip"
  /\ trip' = [trip EXCEPT !.status = "in_progress",
                          !.startOdometer = <<OrZero(req[p].startOdometer)>>]
  /\ req' = [req EXCEPT ![p].pc = "startCreateTripEvent"]
  /\ UNCHANGED <<job, tripEvents, gpsRoutePoints, page, rcVars, brVars, dsVars>>

\* createTripEvent({ eventType: 'departure', latitude, longitude, ... })
startCreateTripEvent(p) ==
  /\ req[p].pc = "startCreateTripEvent"
  /\ tripEvents' = Append(tripEvents, EventOf("departure", req[p].fix))
  /\ req' = [req EXCEPT ![p].pc = "startUpdateJob"]
  /\ UNCHANGED <<trip, job, gpsRoutePoints, page, rcVars, brVars, dsVars>>

\* updateJob(trip.jobId, { status: 'in_progress' }), then getTrip and
\* res.json(tripWithRelations), which write nothing
startUpdateJob(p) ==
  /\ req[p].pc = "startUpdateJob"
  /\ job' = [job EXCEPT !.status = "in_progress"]
  /\ req' = [req EXCEPT ![p] = NoRequest]
  /\ UNCHANGED <<trip, tripEvents, gpsRoutePoints, page, rcVars, brVars, dsVars>>

\* canEnd, handleEndTrip; POST /api/trips/:id/end up to distance
endGetTrip(p, odometer, fix) ==
  /\ req[p].pc = "idle"
  /\ page[p].status = "in_progress"
  /\ odometer >= OrZero(page[p].startOdometer)
  /\ RoomForEvent
  /\ req' = [req EXCEPT ![p] = [NoRequest EXCEPT !.pc = "endGetTripEvents",
                                                 !.endOdometer = odometer,
                                                 !.fix = fix,
                                                 !.distance = odometer
                                                   - OrZero(trip.startOdometer)]]
  /\ UNCHANGED <<trip, job, tripEvents, gpsRoutePoints, page, rcVars, brVars, dsVars>>

\* getTripEvents and actualPath, then getJob and routeCompliance: the
\* coordinates of the job are the same whenever they are read
endGetTripEvents(p) ==
  /\ req[p].pc = "endGetTripEvents"
  /\ req' = [req EXCEPT ![p].pc = "endUpdateTrip",
                        ![p].actualPath = PathOfEvents(tripEvents),
                        ![p].routeCompliance =
                          RouteComplianceOf(job, PathOfEvents(tripEvents))]
  /\ UNCHANGED <<trip, job, tripEvents, gpsRoutePoints, page, rcVars, brVars, dsVars>>

\* updateTrip(id, { status: 'completed', endOdometer, distanceTravelled, ... })
endUpdateTrip(p) ==
  /\ req[p].pc = "endUpdateTrip"
  /\ trip' = [trip EXCEPT
                !.status = "completed",
                !.endOdometer = <<req[p].endOdometer>>,
                !.distanceTravelled = <<req[p].distance>>,
                !.routeCompliancePercent =
                  <<req[p].routeCompliance.compliancePercent>>]
  /\ req' = [req EXCEPT ![p].pc = "endCreateTripEvent"]
  /\ UNCHANGED <<job, tripEvents, gpsRoutePoints, page, rcVars, brVars, dsVars>>

\* createTripEvent({ eventType: 'arrival', latitude, longitude, ... })
endCreateTripEvent(p) ==
  /\ req[p].pc = "endCreateTripEvent"
  /\ tripEvents' = Append(tripEvents, EventOf("arrival", req[p].fix))
  /\ req' = [req EXCEPT ![p].pc = "endUpdateJob"]
  /\ UNCHANGED <<trip, job, gpsRoutePoints, page, rcVars, brVars, dsVars>>

\* updateJob(trip.jobId, { status: 'completed' }), then getTrip and
\* res.json(tripWithRelations), which write nothing
endUpdateJob(p) ==
  /\ req[p].pc = "endUpdateJob"
  /\ job' = [job EXCEPT !.status = "completed"]
  /\ req' = [req EXCEPT ![p] = NoRequest]
  /\ UNCHANGED <<trip, tripEvents, gpsRoutePoints, page, rcVars, brVars, dsVars>>

\* isActive && canManageTrip, the event dialog; POST /api/trips/:id/events
postEvent(p, type, fix) ==
  /\ page[p].status = "in_progress"
  /\ RoomForEvent
  /\ tripEvents' = Append(tripEvents, EventOf(type, fix))
  /\ UNCHANGED <<trip, job, gpsRoutePoints, page, req, rcVars, brVars, dsVars>>

\* POST /api/trips/:id/gps
postGps(fix) ==
  /\ Len(gpsRoutePoints) < MaxGps
  /\ gpsRoutePoints' =
       Append(gpsRoutePoints, [latitude |-> fix.lat, longitude |-> fix.lng])
  /\ UNCHANGED <<trip, job, tripEvents, page, req, rcVars, brVars, dsVars>>

(***************************************************************************)
(* Inputs.                                                                 *)
(***************************************************************************)
\* planned routes <<pickup, delivery>>: along a parallel, diagonal, of zero
\* length, and one whose waypoints fall between ticks
Routes ==
  { <<Coord(0, 0), Coord(0, 200)>>,
    <<Coord(0, 0), Coord(120, 160)>>,
    <<Coord(40, 30), Coord(40, 30)>>,
    <<Coord(10, -20), Coord(43, 27)>> }

\* GPS fixes: 5 m and 6 m beside the first route, 5 m before its pickup and
\* 5.66 m beyond its delivery
ActualPoints ==
  { Coord(5, 95), Coord(6, 95), Coord(4, -3), Coord(-4, 204) }

\* explicit toleranceMeters (the default comes on top)
Tolerances == {5}

PlannedPaths ==
  { interpolateRoute(r[1], r[2], ComplianceNumPoints) : r \in Routes }

ActualPaths ==
  UNION { [1..n -> ActualPoints] : n \in 0..MaxPath } \cup PlannedPaths

Endpoints == { r[1] : r \in Routes } \cup { r[2] : r \in Routes }

rcIdle ==
  /\ actualPath = <<>> /\ expectedStart = Coord(0, 0) /\ expectedEnd = Coord(0, 0)
  /\ toleranceArg = <<>> /\ expectedRoute = <<>> /\ idx = 0
  /\ compliantPoints = 0 /\ totalDeviation = 0 /\ maxDeviation = 0
  /\ minDistance = Infinity /\ rcResult = NoResult /\ rcPc = "idle"

brIdle ==
  /\ brStart = Coord(0, 0) /\ brEnd = Coord(0, 0) /\ brCaller = "none"
  /\ brNumPointsArg = <<>> /\ brRoute = <<>>

\* positions of GPS samples, in metres: two 50 m apart on a parallel, and
\* one a kilometre further
Positions == { <<0, 0>>, <<0, 50>>, <<0, 1050>> }

\* time between two consecutive samples: 5 minutes, 5 minutes and a half
GapsMs == { 5 * MsPerMinute, 5 * MsPerMinute + 30000 }

RECURSIVE TimeAt(_, _)
\* the timestamp of sample k of a track whose samples are gaps apart
TimeAt(gaps, k) == IF k <= 1 THEN 0 ELSE gaps[k - 1] + TimeAt(gaps, k - 1)

Track(pos, gaps) ==
  [k \in 1..Len(pos) |->
     [latitude  |-> Res * pos[k][1],
      longitude |-> Res * pos[k][2],
      timestamp |-> TimeAt(gaps, k)]]

Tracks ==
  UNION { { Track(pos, gaps) :
              pos \in [1..n -> Positions],
              gaps \in [1..(IF n = 0 THEN 0 ELSE n - 1) -> GapsMs] } :
          n \in 0..MaxTrack }

\* destinations <<lat, lng>>: none, 50 m from the first position, 1 km away,
\* and one on the equator
Destinations ==
  { << <<>>, <<>> >>,
    << <<Res * 30>>, <<Res * 40>> >>,
    << <<Res * 600>>, <<Res * 800>> >>,
    << <<0>>, <<Res * 20>> >> }

\* <<stopThresholdMinutes, distanceThresholdMeters>>: omitted, or explicit
DetectorThresholds == { << <<>>, <<>> >>, << <<5>>, <<50>> >> }

dsIdle ==
  /\ gpsPoints = <<>> /\ destinationLat = <<>> /\ destinationLng = <<>>
  /\ stopThresholdArg = <<>> /\ distanceThresholdArg = <<>>
  /\ dsI = 0 /\ stopStart = <<>> /\ stopPoints = <<>> /\ stops = <<>>
  /\ dsPc = "idle"

dsInit ==
  /\ gpsPoints \in Tracks
  /\ \E d \in Destinations : destinationLat = d[1] /\ destinationLng = d[2]
  /\ \E t \in DetectorThresholds :
       stopThresholdArg = t[1] /\ distanceThresholdArg = t[2]
  /\ dsI = 0 /\ stopStart = <<>> /\ stopPoints = <<>> /\ stops = <<>>
  /\ dsPc = "call"

dsNext == dsEnter \/ dsPair \/ dsReturn

\* the position a request body carries: none (no geolocation), or one a
\* kilometre from the route of the job
Fixes == { <<>>, <<Coord(600, 800)>> }

\* the position of a GPS sample: 6 m beside the route
GpsFixes == { Coord(6, 95) }

\* startOdometer of a start request: not a number, or a reading
StartOdometers == { <<>>, <<100>> }

\* endOdometer of an end request
EndOdometers == { 50, 150 }

\* eventType of a posted event.  The dialog also offers arrival; here
\* departure and arrival are written by the start and end handlers alone
PostedEventTypes == { "fuel_stop" }

\* the job's pickup and delivery: all four coordinates given and non-zero,
\* all four given with zeros among them, and pickupLat missing
Jobs ==
  { [status |-> "assigned", pickupLat |-> <<Res * 10>>, pickupLng |-> <<Res * 20>>,
     deliveryLat |-> <<Res * 10>>, deliveryLng |-> <<Res * 220>>],
    [status |-> "assigned", pickupLat |-> <<0>>, pickupLng |-> <<0>>,
     deliveryLat |-> <<0>>, deliveryLng |-> <<Res * 200>>],
    [status |-> "assigned", pickupLat |-> <<>>, pickupLng |-> <<Res * 20>>,
     deliveryLat |-> <<Res * 10>>, deliveryLng |-> <<Res * 220>>] }

\* createTrip({ jobId, driverId, vehicleId, status: 'not_started' })
NewTrip ==
  [status |-> "not_started", startOdometer |-> <<>>, endOdometer |-> <<>>,
   distanceTravelled |-> <<>>, routeCompliancePercent |-> <<>>]

trIdle ==
  /\ trip = NewTrip
  /\ job = [status |-> "assigned", pickupLat |-> <<>>, pickupLng |-> <<>>,
            deliveryLat |-> <<>>, deliveryLng |-> <<>>]
  /\ tripEvents = <<>> /\ gpsRoutePoints = <<>>
  /\ page = [p \in Pages |-> Fetched(NewTrip)]
  /\ req = [p \in Pages |-> NoRequest]

trInit ==
  /\ trip = NewTrip
  /\ job \in Jobs
  /\ tripEvents = <<>> /\ gpsRoutePoints = <<>>
  /\ page = [p \in Pages |-> Fetched(NewTrip)]
  /\ req = [p \in Pages |-> NoRequest]

trNext ==
  \/ \E p \in Pages : pageFetch(p)
  \/ \E p \in Pages, odometer \in StartOdometers, fix \in Fixes :
       startGetTrip(p, odometer, fix)
  \/ \E p \in Pages : startUpdateTrip(p)
  \/ \E p \in Pages : startCreateTripEvent(p)
  \/ \E p \in Pages : startUpdateJob(p)
  \/ \E p \in Pages, odometer \in EndOdometers, fix \in Fixes :
       endGetTrip(p, odometer, fix)
  \/ \E p \in Pages : endGetTripEvents(p)
  \/ \E p \in Pages : endUpdateTrip(p)
  \/ \E p \in Pages : endCreateTripEvent(p)
  \/ \E p \in Pages : endUpdateJob(p)
  \/ \E p \in Pages, type \in PostedEventTypes, fix \in Fixes :
       postEvent(p, type, fix)
  \/ \E fix \in GpsFixes : postGps(fix)


rcInit ==
  /\ actualPath \in ActualPaths
  /\ \E r \in Routes : expectedStart = r[1] /\ expectedEnd = r[2]
  /\ toleranceArg \in {<<>>} \cup {<<t>> : t \in Tolerances}
  /\ expectedRoute = <<>> /\ idx = 0
  /\ compliantPoints = 0 /\ totalDeviation = 0 /\ maxDeviation = 0
  /\ minDistance = Infinity /\ rcResult = NoResult /\ rcPc = "call"

brInit ==
  /\ brStart \in Endpoints /\ brEnd \in Endpoints
  /\ brCaller = "none" /\ brNumPointsArg = <<>> /\ brRoute = <<>>

rcNext == rcEnter \/ rcPoint \/ rcReturn

\* a further call of calculateRouteCompliance with the same arguments, in
\* the state the call before left
rcAgain ==
  /\ rcPc = "done"
  /\ rcPc' = "call"
  /\ UNCHANGED <<actualPath, expectedStart, expectedEnd, toleranceArg,
                 expectedRoute, idx, compliantPoints, totalDeviation,
                 maxDeviation, minDistance, rcResult, brVars, dsVars, trVars>>

\* a further call of detectUnscheduledStops with the same arguments, in the
\* state the call before left
dsAgain ==
  /\ dsPc = "done"
  /\ dsPc' = "call"
  /\ UNCHANGED <<gpsPoints, destinationLat, destinationLng, stopThresholdArg,
                 distanceThresholdArg, dsI, stopStart, stopPoints, stops,
                 rcVars, brVars, trVars>>

repeatNext == rcNext \/ dsNext \/ rcAgain \/ dsAgain
brNext == brServerBuild \/ brClientBuild

\* one call of calculateRouteCompliance on each input
InitCompliance == rcInit /\ brIdle /\ dsIdle /\ trIdle
SpecCompliance == InitCompliance /\ [][rcNext]_vars
\* calls of the two route builders
InitBuilder == brInit /\ rcIdle /\ dsIdle /\ trIdle
SpecBuilder == InitBuilder /\ [][brNext]_vars
\* one call of detectUnscheduledStops on each input
InitDetector == dsInit /\ rcIdle /\ brIdle /\ trIdle
SpecDetector == InitDetector /\ [][dsNext]_vars
\* calls of either function repeated on the same arguments
InitRepeat ==
  /\ (rcInit /\ dsIdle) \/ (rcIdle /\ dsInit)
  /\ brIdle /\ trIdle
SpecRepeat == InitRepeat /\ [][repeatNext]_vars
\* requests of the two pages on one trip, interleaved at every await
InitTrip == trInit /\ rcIdle /\ brIdle /\ dsIdle
SpecTrip == InitTrip /\ [][trNext]_vars


(***************************************************************************)
(* What the claims speak of, stated apart from the loops of the code.      *)
(***************************************************************************)
Abs(x) == IF x < 0 THEN -x ELSE x

SetMin(S) == CHOOSE m \in S : \A x \in S : m <= x
SetMax(S) == CHOOSE m \in S : \A x \in S : x <= m

\* the 21 waypoints planned for the current call
PlannedRoute == interpolateRoute(expectedStart, expectedEnd, ComplianceNumPoints)

\* the distance from p to each of the 20 segments of the planned route
SegmentDistances(p) ==
  { pointToLineSegmentDistance(p, PlannedRoute[i], PlannedRoute[i + 1]) :
      i \in 1..ComplianceNumPoints }

\* the distance from p to the closest location on the planned polyline
PolylineDistance(p) == SetMin(SegmentDistances(p))

\* the distance from p to the nearest waypoint
WaypointDistance(p) ==
  SetMin({ haversineDistance(p, PlannedRoute[i]) : i \in 1..(ComplianceNumPoints + 1) })

RECURSIVE SumDeviation(_, _)
SumDeviation(path, k) ==
  IF k = 0 THEN 0 ELSE PolylineDistance(path[k]) + SumDeviation(path, k - 1)

Deviations(path) == { PolylineDistance(path[i]) : i \in 1..Len(path) }

CompliantCount(path) ==
  Cardinality({ i \in 1..Len(path) :
                  PolylineDistance(path[i]) <= toleranceMeters * Res })

rcDone == rcPc = "done"

(***************************************************************************)
(* C1: in calculateRouteCompliance a point is counted as compliant if and  *)
(* only if its minimum distance to the planned polyline is at most         *)
(* toleranceMeters: every iteration of the loop adds one to                *)
(* compliantPoints when the distance is <= the tolerance (a point exactly  *)
(* toleranceMeters away included) and leaves it alone when it is farther.  *)
(***************************************************************************)
C1_ToleranceBoundary ==
  [][ (rcPc = "loop" /\ idx' = idx + 1) =>
        LET d == PolylineDistance(actualPath[idx])
        IN  /\ d <= toleranceMeters * Res => compliantPoints' = compliantPoints + 1
            /\ d > toleranceMeters * Res => compliantPoints' = compliantPoints ]_vars

\* a point exactly toleranceMeters away was counted, the next one, one metre
\* farther, was not
C1_Witness ==
  /\ rcDone /\ Len(actualPath) = 2
  /\ PolylineDistance(actualPath[1]) = toleranceMeters * Res
  /\ PolylineDistance(actualPath[2]) = (toleranceMeters + 1) * Res
  /\ compliantPoints = 1

(***************************************************************************)
(* C2: with an empty actualPath the call returns compliancePercent = 100,  *)
(* maxDeviation = 0 and averageDeviation = 0, whatever the pickup, the     *)
(* delivery and the tolerance, and the planned route is neither built nor  *)
(* scanned.                                                                *)
(***************************************************************************)
C2_EmptyPath ==
  (rcDone /\ actualPath = <<>>) =>
     /\ rcResult.compliancePercent = 1000
     /\ rcResult.maxDeviation = 0
     /\ rcResult.averageDeviation = 0
     /\ expectedRoute = <<>>
     /\ idx = 0

C2_Witness ==
  /\ rcDone /\ actualPath = <<>>
  /\ expectedStart # expectedEnd /\ toleranceArg # <<>>
  /\ rcResult.compliancePercent = 1000

(***************************************************************************)
(* C3: for a non-empty actualPath of n points of which c are compliant,    *)
(* compliancePercent is c / n * 100 rounded to one decimal: a number of    *)
(* tenths nearest to 1000 * c / n (at most half a tenth away), every point *)
(* of the path counted once in n.                                          *)
(***************************************************************************)
C3_CompliancePercent ==
  (rcDone /\ Len(actualPath) > 0) =>
     LET n == Len(actualPath)
         c == CompliantCount(actualPath)
         r == rcResult.compliancePercent
     IN  /\ 2 * n * r <= 2000 * c + n
         /\ 2000 * c - n <= 2 * n * r

\* two of three points compliant, two of them the same fix: 66.7
C3_Witness ==
  /\ rcDone /\ Len(actualPath) = 3
  /\ actualPath[1] = actualPath[2]
  /\ rcResult.compliancePercent = 667

(***************************************************************************)
(* C4: the deviation of every point is the minimum of its distances to all *)
(* 20 segments between consecutive waypoints of the 21-waypoint planned    *)
(* route: the first and the last segment included, and not the distance to *)
(* the nearest waypoint.                                                   *)
(***************************************************************************)
C4_MinOverAllSegments ==
  (rcPc \in {"loop", "done"} /\ idx > 1) =>
     /\ Len(expectedRoute) = ComplianceNumPoints + 1
     /\ minDistance = PolylineDistance(actualPath[idx - 1])
     /\ \A d \in SegmentDistances(actualPath[idx - 1]) : minDistance <= d

\* a fix closer to the inside of a segment than to any waypoint
C4_Witness ==
  /\ rcPc = "loop" /\ idx > 1
  /\ minDistance > 0
  /\ minDistance < WaypointDistance(actualPath[idx - 1])

(***************************************************************************)
(* C5: when actualPath is the 21 waypoints of the planned route of the     *)
(* same pickup and delivery, compliancePercent = 100 and maxDeviation = 0, *)
(* also when pickup = delivery.                                            *)
(***************************************************************************)
C5_PerfectCompliance ==
  (rcDone /\ actualPath = PlannedRoute) =>
     /\ rcResult.compliancePercent = 1000
     /\ rcResult.maxDeviation = 0

C5_Witness ==
  /\ rcDone /\ actualPath = PlannedRoute
  /\ expectedStart # expectedEnd
  /\ toleranceArg = <<>>
  /\ idx = ComplianceNumPoints + 2
  /\ rcResult.compliancePercent = 1000

(***************************************************************************)
(* C6: for a non-empty actualPath, maxDeviation is the largest per-point   *)
(* minimum distance rounded to the nearest metre and averageDeviation is   *)
(* (sum of the per-point minimum distances) / (number of points) rounded   *)
(* to the nearest metre; only these final values are rounded, the running  *)
(* sum and the running maximum are not.                                    *)
(***************************************************************************)
C6_DeviationRounding ==
  (rcDone /\ Len(actualPath) > 0) =>
     LET n == Len(actualPath)
         m == SetMax(Deviations(actualPath))
         t == SumDeviation(actualPath, n)
         rm == rcResult.maxDeviation
         ra == rcResult.averageDeviation
     IN  /\ maxDeviation = m
         /\ totalDeviation = t
         /\ rm % Res = 0
         /\ 2 * Abs(rm - m) <= Res
         /\ ra % Res = 0
         /\ 2 * Abs(n * ra - t) <= n * Res

\* rounding every distance before adding it would have given another average
C6_Witness ==
  /\ rcDone /\ Len(actualPath) = 2
  /\ LET d1 == PolylineDistance(actualPath[1])
         d2 == PolylineDistance(actualPath[2])
     IN  /\ d1 % Res # 0
         /\ d2 % Res # 0
         /\ Res * MathRound(d1, Res) + Res * MathRound(d2, Res)
              # 2 * rcResult.averageDeviation
         /\ rcResult.averageDeviation
              # Res * MathRound(Res * MathRound(d1, Res) + Res * MathRound(d2, Res),
                                2 * Res)

(***************************************************************************)
(* C7: every returned result has compliancePercent within [0, 100] and a   *)
(* maxDeviation and an averageDeviation that are non-negative whole        *)
(* numbers (of metres).                                                    *)
(***************************************************************************)
C7_ResultRange ==
  rcDone =>
     /\ rcResult.compliancePercent >= 0
     /\ rcResult.compliancePercent <= 1000
     /\ rcResult.maxDeviation >= 0
     /\ rcResult.maxDeviation % Res = 0
     /\ rcResult.averageDeviation >= 0
     /\ rcResult.averageDeviation % Res = 0

\* a result strictly inside the range, rounded from distances that are not
\* whole metres
C7_Witness ==
  /\ rcDone
  /\ rcResult.compliancePercent > 0 /\ rcResult.compliancePercent < 1000
  /\ maxDeviation % Res # 0
  /\ totalDeviation % (Len(actualPath) * Res) # 0
  /\ rcResult.averageDeviation > 0

(***************************************************************************)
(* C8: called with numPoints >= 1, each route builder returns numPoints+1  *)
(* waypoints, waypoint i the linear interpolation of pickup and delivery   *)
(* at t = i / numPoints (to the nearest tick); waypoint 0 is the pickup    *)
(* and waypoint numPoints the delivery.                                    *)
(***************************************************************************)
brLat(w) == IF brCaller = "server" THEN w.lat ELSE w[1]
brLng(w) == IF brCaller = "server" THEN w.lng ELSE w[2]

\* v is from + (i / n) * (to - from), to the nearest tick
IsLerp(v, from, to, i, n) == 2 * Abs(n * (v - from) - i * (to - from)) <= n

C8_WaypointCount ==
  (brCaller # "none" /\ brNumPointsArg # <<>>) =>
     LET n == brNumPointsArg[1]
     IN  /\ DOMAIN brRoute = 1..(n + 1)
         /\ \A i \in 0..n :
              /\ IsLerp(brLat(brRoute[i + 1]), brStart.lat, brEnd.lat, i, n)
              /\ IsLerp(brLng(brRoute[i + 1]), brStart.lng, brEnd.lng, i, n)
         /\ brLat(brRoute[1]) = brStart.lat /\ brLng(brRoute[1]) = brStart.lng
         /\ brLat(brRoute[n + 1]) = brEnd.lat /\ brLng(brRoute[n + 1]) = brEnd.lng

C8_Witness ==
  /\ brCaller = "client" /\ brNumPointsArg = <<3>>
  /\ brStart.lat # brEnd.lat /\ brStart.lng # brEnd.lng
  /\ Len(brRoute) = 4
  /\ brRoute[2] # brRoute[1] /\ brRoute[3] # brRoute[4]

(***************************************************************************)
(* C9: called without numPoints, the server's interpolateRoute and the     *)
(* client's interpolatePlannedRoute both return 21 waypoints.              *)
(***************************************************************************)
C9_DefaultWaypoints ==
  (brCaller # "none" /\ brNumPointsArg = <<>>) => Len(brRoute) = 21


(***************************************************************************)
(* C10: in detectUnscheduledStops a pair (prev, curr) opens a stationary   *)
(* run (when none is open) or extends the open one if and only if          *)
(* distance(prev, curr) < distanceThresholdMeters; a pair whose distance   *)
(* is equal to or greater than the threshold closes the open run, which is *)
(* then evaluated (stops is left alone or gains one stop, that of the      *)
(* run's first sample), and no run is open afterwards.                     *)
(***************************************************************************)
PairDistance(k) ==
  calculateDistance(gpsPoints[k].latitude, gpsPoints[k].longitude,
                    gpsPoints[k + 1].latitude, gpsPoints[k + 1].longitude)

C10_StationaryPair ==
  [][ (dsPc = "loop" /\ dsI' = dsI + 1) =>
        LET prev == gpsPoints[dsI]
            curr == gpsPoints[dsI + 1]
            near == PairDistance(dsI) < distanceThresholdMeters * Res
        IN  /\ near =>
                 /\ stops' = stops
                 /\ stopStart = <<>> =>
                      stopStart' = <<prev>> /\ stopPoints' = <<prev, curr>>
                 /\ stopStart # <<>> =>
                      stopStart' = stopStart /\ stopPoints' = Append(stopPoints, curr)
            /\ ~near =>
                 /\ stopStart' = <<>>
                 /\ stopPoints' = <<>>
                 /\ stopStart = <<>> => stops' = stops
                 /\ stopStart # <<>> =>
                      \/ stops' = stops
                      \/ /\ Len(stops') = Len(stops) + 1
                         /\ SubSeq(stops', 1, Len(stops)) = stops
                         /\ stops'[Len(stops')].startTime = stopStart[1].timestamp
                         /\ stops'[Len(stops')].latitude = stopStart[1].latitude
                         /\ stops'[Len(stops')].longitude = stopStart[1].longitude
      ]_vars

\* a pair exactly distanceThresholdMeters apart has closed the run that the
\* pairs before it had built, and the run was emitted
C10_Witness ==
  /\ dsPc = "loop" /\ dsI = 4
  /\ PairDistance(1) < distanceThresholdMeters * Res
  /\ PairDistance(2) < distanceThresholdMeters * Res
  /\ PairDistance(3) = distanceThresholdMeters * Res
  /\ stopStart = <<>> /\ stopPoints = <<>>
  /\ Len(stops) = 1


(***************************************************************************)
(* C11: a run that a movement or the end of the track closes, and whose    *)
(* first sample is not within 200 m of a given destination, adds a stop    *)
(* if and only if the time from its first to its last sample is at least   *)
(* stopThresholdMinutes: a run of exactly the threshold is emitted, a      *)
(* shorter one never.                                                      *)
(***************************************************************************)
\* the first sample of the open run lies within 200 m of a given destination
OpenRunAtDestination ==
  /\ destinationLat # <<>> /\ destinationLng # <<>>
  /\ calculateDistance(stopStart[1].latitude, stopStart[1].longitude,
                       destinationLat[1], destinationLng[1])
       < DestinationRadiusMeters * Res

\* the step closes the open run: the track ends, or the pair moved
ClosesOpenRun ==
  /\ dsPc = "loop" /\ stopStart # <<>>
  /\ IF dsI >= Len(gpsPoints) THEN dsPc' = "done"
     ELSE dsI' = dsI + 1 /\ PairDistance(dsI) >= distanceThresholdMeters * Res

C11_DurationThreshold ==
  [][ (ClosesOpenRun /\ ~OpenRunAtDestination) =>
        LET durationMs == gpsPoints[dsI].timestamp - stopStart[1].timestamp
        IN  IF durationMs >= stopThresholdMinutes * MsPerMinute
            THEN /\ Len(stops') = Len(stops) + 1
                 /\ SubSeq(stops', 1, Len(stops)) = stops
                 /\ stops'[Len(stops')].startTime = stopStart[1].timestamp
            ELSE stops' = stops
      ]_vars

\* a run that lasted exactly stopThresholdMinutes was closed by the end of
\* the track and emitted
C11_Witness ==
  /\ dsPc = "done" /\ Len(gpsPoints) = 3
  /\ destinationLat = <<>>
  /\ PairDistance(1) < distanceThresholdMeters * Res
  /\ PairDistance(2) < distanceThresholdMeters * Res
  /\ gpsPoints[3].timestamp - gpsPoints[1].timestamp
       = stopThresholdMinutes * MsPerMinute
  /\ Len(stops) = 1


(***************************************************************************)
(* C12: three samples 5 minutes apart within 50 m of each other, then one  *)
(* sample at least 1 km away, without destination and with thresholds of   *)
(* 10 minutes and 100 m.  Stated: detectUnscheduledStops returns the empty *)
(* list.  Amended: it returns exactly one stop, at the first sample, of    *)
(* duration 10.                                                            *)
(***************************************************************************)
SampleDistance(j, k) ==
  calculateDistance(gpsPoints[j].latitude, gpsPoints[j].longitude,
                    gpsPoints[k].latitude, gpsPoints[k].longitude)

TenMinuteTrack ==
  /\ Len(gpsPoints) = 4
  /\ destinationLat = <<>> /\ destinationLng = <<>>
  /\ stopThresholdMinutes = 10 /\ distanceThresholdMeters = 100
  /\ gpsPoints[2].timestamp - gpsPoints[1].timestamp = 5 * MsPerMinute
  /\ gpsPoints[3].timestamp - gpsPoints[2].timestamp = 5 * MsPerMinute
  /\ \A j, k \in 1..3 : SampleDistance(j, k) <= 50 * Res
  /\ \A j \in 1..3 : SampleDistance(j, 4) >= 1000 * Res

C12_TenMinuteRunEmpty ==
  (dsPc = "done" /\ TenMinuteTrack) => stops = <<>>

C12_TenMinuteRunEmitted ==
  (dsPc = "done" /\ TenMinuteTrack) =>
    /\ Len(stops) = 1
    /\ stops[1].latitude = gpsPoints[1].latitude
    /\ stops[1].longitude = gpsPoints[1].longitude
    /\ stops[1].startTime = gpsPoints[1].timestamp
    /\ stops[1].duration = 10

C12_Witness ==
  /\ dsPc = "done" /\ TenMinuteTrack
  /\ gpsPoints[2].longitude # gpsPoints[1].longitude
  /\ Len(stops) = 1


(***************************************************************************)
(* C13: whenever a destination is given, whatever its latitude and         *)
(* longitude (0 included), no stop is returned whose run began within      *)
(* 200 m of it.                                                            *)
(***************************************************************************)
C13_DestinationExcluded ==
  (dsPc = "done" /\ destinationLat # <<>> /\ destinationLng # <<>>) =>
    \A k \in 1..Len(stops) :
      calculateDistance(stops[k].latitude, stops[k].longitude,
                        destinationLat[1], destinationLng[1])
        >= DestinationRadiusMeters * Res


(***************************************************************************)
(* C14: every stop carries the latitude, longitude and timestamp of the    *)
(* first sample of a run of the track, and as duration the minutes from    *)
(* the first to the last sample of that run, rounded to the nearest        *)
(* integer (a half rounds up, as Math.round does).                         *)
(***************************************************************************)
\* samples a..b are a maximal run: every pair in it is stationary, the pair
\* before it and the pair after it are not
IsRun(a, b) ==
  /\ a < b
  /\ \A k \in a..(b - 1) : PairDistance(k) < distanceThresholdMeters * Res
  /\ a > 1 => PairDistance(a - 1) >= distanceThresholdMeters * Res
  /\ b < Len(gpsPoints) => PairDistance(b) >= distanceThresholdMeters * Res

C14_StopFields ==
  \A k \in 1..Len(stops) :
    \E a, b \in 1..Len(gpsPoints) :
      /\ IsRun(a, b)
      /\ stops[k].latitude = gpsPoints[a].latitude
      /\ stops[k].longitude = gpsPoints[a].longitude
      /\ stops[k].startTime = gpsPoints[a].timestamp
      /\ LET ms == gpsPoints[b].timestamp - gpsPoints[a].timestamp
         IN  /\ 2 * MsPerMinute * stops[k].duration <= 2 * ms + MsPerMinute
             /\ 2 * ms + MsPerMinute < 2 * MsPerMinute * (stops[k].duration + 1)

\* a run of 10.5 minutes that did not begin at the first sample was emitted
\* with duration 11
C14_Witness ==
  /\ dsPc = "done" /\ Len(stops) = 1
  /\ stops[1].startTime = gpsPoints[2].timestamp
  /\ stops[1].startTime > 0
  /\ stops[1].duration = 11
  /\ \E b \in 3..Len(gpsPoints) :
       /\ IsRun(2, b)
       /\ 2 * (gpsPoints[b].timestamp - gpsPoints[2].timestamp)
            = 21 * MsPerMinute


(***************************************************************************)
(* C15: the run still open when the track ends is evaluated by the rule of *)
(* a run closed by a movement: for a track T of at least one sample,       *)
(* detectUnscheduledStops(T) equals detectUnscheduledStops of T followed   *)
(* by one more sample farther than distanceThresholdMeters from T's last.  *)
(***************************************************************************)
\* the samples that may follow the track: any position, any time after
FollowingSamples ==
  { [latitude  |-> Res * p[1],
     longitude |-> Res * p[2],
     timestamp |-> gpsPoints[Len(gpsPoints)].timestamp + g] :
      p \in Positions, g \in GapsMs }

IsFarFromLast(s) ==
  calculateDistance(gpsPoints[Len(gpsPoints)].latitude,
                    gpsPoints[Len(gpsPoints)].longitude,
                    s.latitude, s.longitude)
    > distanceThresholdMeters * Res

C15_OpenRunAtEnd ==
  (dsPc = "done" /\ Len(gpsPoints) >= 1) =>
    \A s \in FollowingSamples :
      IsFarFromLast(s) => stops = detectUnscheduledStops(Append(gpsPoints, s))

\* the track ended inside a run, which was emitted
C15_Witness ==
  /\ dsPc = "done" /\ Len(gpsPoints) >= 3
  /\ stopStart # <<>>
  /\ stopPoints[Len(stopPoints)] = gpsPoints[Len(gpsPoints)]
  /\ Len(stops) >= 1
  /\ stops[Len(stops)].startTime = stopStart[1].timestamp
  /\ \E s \in FollowingSamples : IsFarFromLast(s)


(***************************************************************************)
(* C16: for a track of fewer than two samples detectUnscheduledStops       *)
(* returns the empty list, by the early return, before any pair is looked  *)
(* at.                                                                     *)
(***************************************************************************)
C16_ShortTrack ==
  (dsPc = "done" /\ Len(gpsPoints) < 2) =>
    stops = <<>> /\ dsI = 0 /\ stopStart = <<>>

C16_Witness ==
  /\ dsPc = "done" /\ Len(gpsPoints) = 1 /\ stops = <<>>


(***************************************************************************)
(* C17: the path that POST /api/trips/:id/end hands to                     *)
(* calculateRouteCompliance is made of the trip's GPS samples, in their    *)
(* order: it is the path of the rows of gps_route_points, or (samples      *)
(* posted since the path was read) a prefix of it.                         *)
(***************************************************************************)
\* the rows of gps_route_points as a path
GpsPath ==
  [k \in 1..Len(gpsRoutePoints) |->
     [lat |-> gpsRoutePoints[k].latitude, lng |-> gpsRoutePoints[k].longitude]]

\* the end request of page p has made its call of calculateRouteCompliance
HasEvaluated(p) ==
  /\ req[p].pc \in {"endUpdateTrip", "endCreateTripEvent", "endUpdateJob"}
  /\ ShouldEvaluate(job, req[p].actualPath)

C17_PathIsGpsTrack ==
  \A p \in Pages :
    HasEvaluated(p) =>
      /\ Len(req[p].actualPath) <= Len(GpsPath)
      /\ req[p].actualPath = SubSeq(GpsPath, 1, Len(req[p].actualPath))


(***************************************************************************)
(* C18: a trip is completed at most once: whatever end requests are sent   *)
(* and however they interleave, the trip has at most one arrival event.    *)
(***************************************************************************)
ArrivalEvents == { k \in 1..Len(tripEvents) : tripEvents[k].eventType = "arrival" }

C18_CompletedOnce == Cardinality(ArrivalEvents) <= 1


(***************************************************************************)
(* C19: the status of a trip becomes in_progress only from not_started and *)
(* becomes completed only from in_progress.                                *)
(***************************************************************************)
C19_StatusMachine ==
  [][ /\ (trip'.status = "in_progress" /\ trip.status # "in_progress")
           => trip.status = "not_started"
      /\ (trip'.status = "completed" /\ trip.status # "completed")
           => trip.status = "in_progress"
    ]_vars


(***************************************************************************)
(* C20: when the job has all four of pickupLat, pickupLng, deliveryLat and *)
(* deliveryLng (0 included) and the path of the end request is not empty,  *)
(* the routeCompliancePercent the request stores is the compliancePercent  *)
(* of calculateRouteCompliance for that path and those endpoints.          *)
(***************************************************************************)
HasAllEndpoints ==
  /\ job.pickupLat # <<>> /\ job.pickupLng # <<>>
  /\ job.deliveryLat # <<>> /\ job.deliveryLng # <<>>

C20_StoredCompliance ==
  [][ \A p \in Pages :
        ( /\ req[p].pc = "endUpdateTrip" /\ req'[p].pc = "endCreateTripEvent"
          /\ HasAllEndpoints
          /\ Len(req[p].actualPath) > 0 ) =>
          trip'.routeCompliancePercent =
            << calculateRouteCompliance(req[p].actualPath,
                 [lat |-> job.pickupLat[1], lng |-> job.pickupLng[1]],
                 [lat |-> job.deliveryLat[1], lng |-> job.deliveryLng[1]],
                 DefaultToleranceMeters).compliancePercent >>
    ]_vars


(***************************************************************************)
(* C21: called again on the same arguments, in whatever state the call     *)
(* before left, calculateRouteCompliance and detectUnscheduledStops return *)
(* what they returned before, the value the function of the arguments      *)
(* alone gives; and no step of either changes its arguments.               *)
(***************************************************************************)
C21_Idempotent ==
  [][ /\ <<actualPath, expectedStart, expectedEnd, toleranceArg>>'
           = <<actualPath, expectedStart, expectedEnd, toleranceArg>>
      /\ <<gpsPoints, destinationLat, destinationLng, stopThresholdArg,
           distanceThresholdArg>>'
           = <<gpsPoints, destinationLat, destinationLng, stopThresholdArg,
               distanceThresholdArg>>
      /\ (rcPc # "done" /\ rcPc' = "done") =>
           rcResult' = calculateRouteCompliance(actualPath, expectedStart,
                                                expectedEnd, toleranceMeters)
      /\ (dsPc # "done" /\ dsPc' = "done") =>
           stops' = detectUnscheduledStops(gpsPoints)
    ]_vars

\* a second call of detectUnscheduledStops is about to run its loop, the
\* stops and the open run of the first call still in place
C21_Witness ==
  /\ dsPc = "call" /\ Len(gpsPoints) >= 3
  /\ Len(stops) >= 1 /\ stopStart # <<>> /\ dsI = Len(gpsPoints)


(***************************************************************************)
(* C22: pointToLineSegmentDistance is defined for every point and segment. *)
(* For a segment of zero length it is the distance from the point to the   *)
(* segment's start.  Otherwise the location it measures to is on the       *)
(* segment: the start when the projection falls before it, the end when it *)
(* falls beyond it, and between them a location no farther from the point  *)
(* than either end (to within one tick of rounding).                       *)
(***************************************************************************)
\* (point - a) . (b - a) and |b - a|^2
Dot(point, a, b) ==
  (point.lat - a.lat) * (b.lat - a.lat) + (point.lng - a.lng) * (b.lng - a.lng)
SquaredLength(a, b) ==
  (b.lat - a.lat) * (b.lat - a.lat) + (b.lng - a.lng) * (b.lng - a.lng)

OnSegment(point, a, b) ==
  LET d == pointToLineSegmentDistance(point, a, b)
  IN  IF a = b THEN d = haversineDistance(point, a)
      ELSE IF Dot(point, a, b) <= 0 THEN d = haversineDistance(point, a)
      ELSE IF Dot(point, a, b) >= SquaredLength(a, b)
           THEN d = haversineDistance(point, b)
      ELSE /\ d <= haversineDistance(point, a) + 1
           /\ d <= haversineDistance(point, b) + 1

C22_DegenerateGeometry ==
  (rcPc = "loop" /\ idx <= Len(actualPath)) =>
    \A i \in 1..(Len(expectedRoute) - 1) :
      /\ pointToLineSegmentDistance(actualPath[idx], expectedRoute[i],
                                    expectedRoute[i + 1]) >= 0
      /\ OnSegment(actualPath[idx], expectedRoute[i], expectedRoute[i + 1])

\* pickup = delivery: every segment of the planned route has zero length,
\* and the first point was measured to the pickup
C22_Witness ==
  /\ rcPc = "loop" /\ idx = 2
  /\ expectedStart = expectedEnd
  /\ \A i \in 1..ComplianceNumPoints : expectedRoute[i] = expectedRoute[i + 1]
  /\ minDistance = haversineDistance(actualPath[1], expectedStart)
  /\ minDistance > 0


(***************************************************************************)
(* C23: after every step of detectUnscheduledStops, an open run (stopStart *)
(* set) holds at least 2 samples, its first sample is stopStart, and its   *)
(* samples are the block of the track that ends at the sample last looked  *)
(* at; with no run open stopPoints is empty; and a step that adds a stop   *)
(* closes a run of at least 2 samples.                                     *)
(***************************************************************************)
C23_OpenRun ==
  [][ /\ stopStart' # <<>> =>
           /\ Len(stopPoints') >= 2
           /\ stopPoints'[1] = stopStart'[1]
           /\ dsI' >= Len(stopPoints')
           /\ stopPoints' = SubSeq(gpsPoints, dsI' - Len(stopPoints') + 1, dsI')
      /\ stopStart' = <<>> => stopPoints' = <<>>
      /\ Len(stops') > Len(stops) =>
           /\ stopStart # <<>>
           /\ Len(stopPoints) >= 2
           /\ stops'[Len(stops')].startTime = stopPoints[1].timestamp
    ]_vars

\* samples 2 to 4 are an open run of three samples
C23_Witness ==
  /\ dsPc = "loop" /\ dsI = 4
  /\ stopStart = <<gpsPoints[2]>>
  /\ stopPoints = SubSeq(gpsPoints, 2, 4)
  /\ gpsPoints[1] # gpsPoints[2]


(***************************************************************************)
(* C24: once every start and end request has finished, the status of the   *)
(* job corresponds to the status of the trip: a trip in_progress has its   *)
(* job in_progress, a completed trip has its job completed.                *)
(***************************************************************************)
AllFinished == \A p \in Pages : req[p].pc = "idle"

C24_JobFollowsTrip ==
  AllFinished =>
    /\ trip.status = "in_progress" => job.status = "in_progress"
    /\ trip.status = "completed" => job.status = "completed"


(***************************************************************************)
(* C25: the distanceTravelled stored by an end request is never negative:  *)
(* an end reading below the start reading is not recorded.                 *)
(***************************************************************************)
C25_DistanceTravelled ==
  trip.distanceTravelled # <<>> => trip.distanceTravelled[1] >= 0



(***************************************************************************)
(* C26: a run that a movement or the end of the track closes and that      *)
(* lasted at least stopThresholdMinutes is left out of the stops if and    *)
(* only if a destination is given and the first sample of the run is       *)
(* strictly less than 200 m from it, wherever the later samples of the run *)
(* lie.                                                                    *)
(***************************************************************************)
C26_FirstSampleOnly ==
  [][ ( /\ ClosesOpenRun
        /\ gpsPoints[dsI].timestamp - stopStart[1].timestamp
             >= stopThresholdMinutes * MsPerMinute )
      => (stops' = stops <=> OpenRunAtDestination)
    ]_vars


(***************************************************************************)
(* C27: the stops are in track order and come from pairwise disjoint runs: *)
(* every stop begins a run of the track, the run of each stop begins at a  *)
(* strictly larger index than the one where the run of the stop before it  *)
(* ends, and a track of n samples gives at most floor(n / 2) stops.        *)
(***************************************************************************)
\* stop k was emitted for the run a..b of the track
IsStopOfRun(k, a, b) ==
  /\ IsRun(a, b)
  /\ stops[k].startTime = gpsPoints[a].timestamp
  /\ stops[k].latitude = gpsPoints[a].latitude
  /\ stops[k].longitude = gpsPoints[a].longitude

C27_DisjointRuns ==
  /\ \A k \in 1..Len(stops) :
       \E a, b \in 1..Len(gpsPoints) :
         /\ IsStopOfRun(k, a, b)
         /\ k > 1 => \E a0, b0 \in 1..Len(gpsPoints) :
                       IsStopOfRun(k - 1, a0, b0) /\ a > b0
  /\ Len(stops) <= Len(gpsPoints) \div 2

\* a track of four samples gave two stops, one for samples 1..2 and one for
\* samples 3..4
C27_Witness ==
  /\ dsPc = "done" /\ Len(gpsPoints) = 4 /\ Len(stops) = 2
  /\ IsStopOfRun(1, 1, 2) /\ IsStopOfRun(2, 3, 4)


(***************************************************************************)
(* C28: in every result of calculateRouteCompliance averageDeviation is at *)
(* most maxDeviation; compliancePercent is 100 whenever no point deviates  *)
(* from the planned route by more than toleranceMeters (the unrounded      *)
(* maximum is within the tolerance), and 0 whenever the path has points    *)
(* and every one of them deviates by more than toleranceMeters.            *)
(***************************************************************************)
\* the deviation of point k of the path: its distance to the nearest segment
\* of the planned route
DeviationOf(k) ==
  SegmentLoop(actualPath[k],
              interpolateRoute(expectedStart, expectedEnd, ComplianceNumPoints))

C28_ResultBounds ==
  rcPc = "done" =>
    /\ rcResult.averageDeviation <= rcResult.maxDeviation
    /\ (\A k \in 1..Len(actualPath) : DeviationOf(k) <= toleranceMeters * Res)
         => rcResult.compliancePercent = 1000
    /\ ( /\ Len(actualPath) > 0
         /\ \A k \in 1..Len(actualPath) : DeviationOf(k) > toleranceMeters * Res )
         => rcResult.compliancePercent = 0

\* every point of a path of several points is out of tolerance, by different
\* distances: compliancePercent 0 and an average below the maximum
C28_Witness ==
  /\ rcPc = "done" /\ Len(actualPath) >= 2
  /\ \A k \in 1..Len(actualPath) : DeviationOf(k) > toleranceMeters * Res
  /\ rcResult.compliancePercent = 0
  /\ 0 < rcResult.averageDeviation
  /\ rcResult.averageDeviation < rcResult.maxDeviation


(***************************************************************************)
(* C29: for a fixed path and fixed endpoints, a larger toleranceMeters     *)
(* never gives a smaller compliancePercent (and a smaller one never a      *)
(* larger), and maxDeviation and averageDeviation are the same for every   *)
(* tolerance.                                                              *)
(***************************************************************************)
\* the tolerances the call's own tolerance is compared with, in metres
ComparedTolerances == {0, 5, 6, 50, 500}

C29_ToleranceMonotone ==
  rcPc = "done" =>
    \A t \in ComparedTolerances :
      LET other == calculateRouteCompliance(actualPath, expectedStart,
                                            expectedEnd, t)
      IN  /\ t >= toleranceMeters =>
               other.compliancePercent >= rcResult.compliancePercent
          /\ t <= toleranceMeters =>
               other.compliancePercent <= rcResult.compliancePercent
          /\ other.maxDeviation = rcResult.maxDeviation
          /\ other.averageDeviation = rcResult.averageDeviation

\* a path that is partly compliant at a tolerance of 5 m and more compliant
\* at 6 m, with a deviation that is not 0
C29_Witness ==
  /\ rcPc = "done" /\ Len(actualPath) >= 2 /\ toleranceMeters = 5
  /\ 0 < rcResult.compliancePercent /\ rcResult.compliancePercent < 1000
  /\ rcResult.maxDeviation > 0
  /\ calculateRouteCompliance(actualPath, expectedStart, expectedEnd, 6)
       .compliancePercent > rcResult.compliancePercent


(***************************************************************************)
(* C30: the result of calculateRouteCompliance does not depend on the      *)
(* order of the points of actualPath: the same points in any other order   *)
(* give the same compliancePercent, the same maxDeviation and (the sum of  *)
(* the deviations being exact here) the same averageDeviation.             *)
(***************************************************************************)
\* the orders of 1..n
Permutations(n) ==
  { f \in [1..n -> 1..n] : \A a, b \in 1..n : a # b => f[a] # f[b] }

\* the path in other orders: every order of a short path; a long path
\* reversed, and with its first point moved to the end
Reorderings(path) ==
  LET n == Len(path)
  IN  IF n <= MaxPath + 1
      THEN { [k \in 1..n |-> path[f[k]]] : f \in Permutations(n) }
      ELSE { [k \in 1..n |-> path[n + 1 - k]],
             [k \in 1..n |-> path[(k % n) + 1]] }

C30_OrderIndependent ==
  rcPc = "done" =>
    \A q \in Reorderings(actualPath) :
      LET other == calculateRouteCompliance(q, expectedStart, expectedEnd,
                                            toleranceMeters)
      IN  /\ other.compliancePercent = rcResult.compliancePercent
          /\ other.maxDeviation = rcResult.maxDeviation
          /\ other.averageDeviation = rcResult.averageDeviation

\* three points at three different distances from the route, some of them
\* within the tolerance, the largest deviation not at the last point
C30_Witness ==
  /\ rcPc = "done" /\ Len(actualPath) = 3
  /\ DeviationOf(1) # DeviationOf(2)
  /\ DeviationOf(2) # DeviationOf(3)
  /\ DeviationOf(1) # DeviationOf(3)
  /\ DeviationOf(3) < DeviationOf(1)
  /\ 0 < rcResult.compliancePercent /\ rcResult.compliancePercent < 1000

============================================================================
